---- MODULE Spec2Model ----
(***************************************************************************)
(* A model of demesdraw: utils.inf_start_time (the finite stand-in for an  *)
(* infinite start time) and size_history (the N(t) plot of every deme).    *)
(*                                                                         *)
(* Numbers.  Python floats are modelled as exact reals:                    *)
(*   - a time is a rational [n, d]; d = 0 is float("inf");                 *)
(*   - the horizon is a root-power [n, d, p, q] = (n/d)^(p/q), which is    *)
(*     what exp(log(T) / (1 - r)) is for a rational ratio r;               *)
(*   - an x coordinate is affine in the horizon, [c, h] = c + h * horizon; *)
(*   - a y coordinate is [scale, base, p, q] = scale * base^(p/q), which   *)
(*     is what start_size * exp(log(end/start) * dt) is.                   *)
(* Indices j and k are 0-based as in the source; sequences are 1-based.    *)
(***************************************************************************)
EXTENDS Integers, Sequences, FiniteSets, TLC

VARIABLES
    graph,          \* the demes.Graph argument
    opts,           \* the keyword arguments of size_history
    pc,             \* position in size_history
    j,              \* index of the deme being drawn (line 76)
    k,              \* index of the epoch being drawn (line 99)
    cmap,           \* the colour map in use (lines 58-66)
    arrowhead,      \* marker format (lines 53-56)
    inf_start,      \* the local inf_start_time (line 68)
    legend_handles, \* line 72, 97
    calls,          \* every call issued so far, in order
    error,          \* the exception raised, if any
    result          \* what utils.inf_start_time returned, with its log calls

vars == <<graph, opts, pc, j, k, cmap, arrowhead, inf_start, legend_handles,
          calls, error, result>>

----------------------------------------------------------------------------
(* Bounds of the model.                                                    *)

MaxDemes == 4
MaxEpochs == 2
MaxTime == 2
MaxSize == 2
MaxPts == 2

----------------------------------------------------------------------------
(* Exact arithmetic.                                                       *)

RECURSIVE GCD(_, _)
GCD(a, b) == IF b = 0 THEN a ELSE GCD(b, a % b)

RECURSIVE IPow(_, _)
IPow(b, e) == IF e = 0 THEN 1 ELSE b * IPow(b, e - 1)

Rat(n, d) == LET g == GCD(n, d) IN [n |-> n \div g, d |-> d \div g]

Inf == [n |-> 1, d |-> 0]

isinf(t) == t.d = 0

RatLess(a, b) == a.n * b.d < b.n * a.d

RatAdd(a, b) == Rat(a.n * b.d + b.n * a.d, a.d * b.d)

RatMul(a, b) == Rat(a.n * b.n, a.d * b.d)

\* (n/d)^(p/q) in lowest terms; a rational whenever the root can be avoided.
Real(base, p, q) ==
    LET g == GCD(p, q)
        pp == p \div g
        qq == q \div g
    IN  IF base.n = 0 \/ base = Rat(1, 1) \/ pp = 0
        THEN [n |-> IF pp = 0 THEN 1 ELSE base.n, d |-> 1, p |-> 1, q |-> 1]
        ELSE IF qq = 1
        THEN [n |-> IPow(base.n, pp), d |-> IPow(base.d, pp), p |-> 1, q |-> 1]
        ELSE [n |-> base.n, d |-> base.d, p |-> pp, q |-> qq]

FromRat(t) == Real(t, 1, 1)

\* a^(pa/qa) < b^(pb/qb) for nonnegative a, b: both sides raised to qa*qb.
RealLess(a, b) ==
    IF a = b THEN FALSE
    ELSE IPow(a.n, a.p * b.q) * IPow(b.d, b.p * a.q)
           < IPow(b.n, b.p * a.q) * IPow(a.d, a.p * b.q)

RealLeq(a, b) == a = b \/ RealLess(a, b)

\* The value of the local before line 68 assigns it.
Unassigned == [n |-> 0, d |-> 0, p |-> 1, q |-> 1]

----------------------------------------------------------------------------
(* The graph: demes.Graph as size_history reads it.                        *)

Epoch(start_time, end_time, start_size, end_size, size_function) ==
    [start_time |-> start_time, end_time |-> end_time,
     start_size |-> start_size, end_size |-> end_size,
     size_function |-> size_function]

Deme(id, epochs, ancestors) ==
    [id |-> id, epochs |-> epochs, ancestors |-> ancestors]

\* demes.Deme.start_time is the start time of its first epoch.
start_time(deme) == deme.epochs[1].start_time

----------------------------------------------------------------------------
(* utils.inf_start_time                                                    *)

FallbackHorizon == 113

RECURSIVE epoch0_times(_, _)
epoch0_times(demes, n) ==
    IF n = 0 THEN <<>>
    ELSE LET deme == demes[n]
             sofar == Append(epoch0_times(demes, n - 1), deme.epochs[1].end_time)
         IN  IF ~isinf(deme.epochs[1].start_time)
             THEN Append(sofar, deme.epochs[1].start_time)
             ELSE sofar

\* Python's max() of a nonempty list.
max(times) ==
    LET S == {times[i] : i \in 1..Len(times)}
    IN  CHOOSE m \in S : \A t \in S : ~RatLess(m, t)

\* The horizon on a linear axis, line 30: T / (1 - r).
LinearHorizon(oldest_noninf_time, inf_ratio) ==
    FromRat(RatMul(oldest_noninf_time,
                   Rat(inf_ratio.d, inf_ratio.d - inf_ratio.n)))

\* The horizon on a log axis, line 28: exp(log(T) / (1 - r)) = T^(1/(1-r)).
LogHorizon(oldest_noninf_time, inf_ratio) ==
    Real(oldest_noninf_time, inf_ratio.d, inf_ratio.d - inf_ratio.n)

\* inf_start_time without the special case of line 20.
inf_start_time_nozero(g, inf_ratio, log_scale) ==
    LET oldest_noninf_time == max(epoch0_times(g.demes, Len(g.demes)))
    IN  IF log_scale
        THEN [value |-> LogHorizon(oldest_noninf_time, inf_ratio),
              logs |-> <<oldest_noninf_time>>]
        ELSE [value |-> LinearHorizon(oldest_noninf_time, inf_ratio),
              logs |-> <<>>]

\* value: what is returned; logs: the arguments np.log was called with.
inf_start_time(g, inf_ratio, log_scale) ==
    LET oldest_noninf_time == max(epoch0_times(g.demes, Len(g.demes)))
    IN  IF oldest_noninf_time = Rat(0, 1)
        THEN [value |-> FromRat(Rat(FallbackHorizon, 1)), logs |-> <<>>]
        ELSE IF log_scale
        THEN [value |-> LogHorizon(oldest_noninf_time, inf_ratio),
              logs |-> <<oldest_noninf_time>>]
        ELSE [value |-> LinearHorizon(oldest_noninf_time, inf_ratio),
              logs |-> <<>>]

----------------------------------------------------------------------------
(* Coordinates.                                                            *)

\* An x coordinate c + h * inf_start_time.
XTime(t) == [c |-> t, h |-> Rat(0, 1)]

XHorizon == [c |-> Rat(0, 1), h |-> Rat(1, 1)]

\* A y coordinate scale * base^(p/q).
Size(s) == [scale |-> s, base |-> Rat(1, 1), p |-> 0, q |-> 1]

\* np.linspace(start, stop, num): num evenly spaced points, both ends included.
linspace(start, stop, num) ==
    [i \in 1..num |->
        IF i = 1 THEN start
        ELSE IF i = num THEN stop
        ELSE LET m == num - 1
                 w == Rat(i - 1, m)
                 v == Rat(m - (i - 1), m)
             IN  [c |-> RatAdd(RatMul(v, start.c), RatMul(w, stop.c)),
                  h |-> RatAdd(RatMul(v, start.h), RatMul(w, stop.h))]]

\* start_size * np.exp(np.log(end_size / start_size) * dt), lines 113-114.
exp_size(start_size, end_size, dt) ==
    IF dt.n = 0 \/ start_size = end_size THEN Size(start_size)
    ELSE IF dt = Rat(1, 1) THEN Size(end_size)
    ELSE [scale |-> start_size, base |-> Rat(end_size, start_size),
          p |-> dt.n, q |-> dt.d]

\* epoch_curve with every other size_function drawn like "constant".
epoch_curve_lenient(epoch, x_start, x_end, num_exp_points) ==
    IF epoch.size_function = "exponential"
    THEN LET x  == linspace(x_start, x_end, num_exp_points)
             dt == linspace(XTime(Rat(0, 1)), XTime(Rat(1, 1)), num_exp_points)
         IN  [ok |-> TRUE,
              x |-> x,
              y |-> [i \in 1..num_exp_points |->
                        exp_size(epoch.start_size, epoch.end_size, dt[i].c)]]
    ELSE [ok |-> TRUE,
          x |-> <<x_start, x_end>>,
          y |-> <<Size(epoch.start_size), Size(epoch.end_size)>>]

\* epoch_curve with an exponential epoch drawn through its two ends only.
epoch_curve_two_points(epoch, x_start, x_end, num_exp_points) ==
    IF epoch.size_function \in {"constant", "exponential"}
    THEN [ok |-> TRUE,
          x |-> <<x_start, x_end>>,
          y |-> <<Size(epoch.start_size), Size(epoch.end_size)>>]
    ELSE [ok |-> FALSE, x |-> <<>>, y |-> <<>>]

\* Lines 107-119: the curve of one epoch, or the exception.
epoch_curve(epoch, x_start, x_end, num_exp_points) ==
    IF epoch.size_function = "constant"
    THEN [ok |-> TRUE,
          x |-> <<x_start, x_end>>,
          y |-> <<Size(epoch.start_size), Size(epoch.end_size)>>]
    ELSE IF epoch.size_function = "exponential"
    THEN LET x  == linspace(x_start, x_end, num_exp_points)
             dt == linspace(XTime(Rat(0, 1)), XTime(Rat(1, 1)), num_exp_points)
         IN  [ok |-> TRUE,
              x |-> x,
              y |-> [i \in 1..num_exp_points |->
                        exp_size(epoch.start_size, epoch.end_size, dt[i].c)]]
    ELSE [ok |-> FALSE, x |-> <<>>, y |-> <<>>]

\* unsupported_message counting the epochs from one.
unsupported_message_one_based(kk, epoch) ==
    [epoch |-> kk + 1, size_function |-> epoch.size_function]

\* Lines 116-119: the values the message of the ValueError is built from.
unsupported_message(kk, epoch) ==
    [epoch |-> kk, size_function |-> epoch.size_function]

\* discontinuity comparing the start sizes of the two epochs.
discontinuity_start_sizes(deme, kk) ==
    kk > 0 /\ deme.epochs[kk].start_size # deme.epochs[kk + 1].start_size

\* Line 122: the test for a size discontinuity before epoch kk (0-based).
discontinuity(deme, kk) ==
    kk > 0 /\ deme.epochs[kk].end_size # deme.epochs[kk + 1].start_size

\* graph[ancestor_id]
graph_lookup(g, id) ==
    CHOOSE deme \in {g.demes[i] : i \in 1..Len(g.demes)} : deme.id = id

\* utils.size_of_deme_at_time: the size of the epoch of deme that is active
\* at time t, interpolated when the epoch is exponential.
size_of_deme_at_time(deme, t) ==
    LET active == {i \in 1..Len(deme.epochs) :
                      /\ ~RatLess(deme.epochs[i].start_time, t)
                      /\ ~RatLess(t, deme.epochs[i].end_time)}
        i  == CHOOSE a \in active : \A b \in active : a <= b
        ep == deme.epochs[i]
    IN  IF ep.size_function = "constant" \/ isinf(ep.start_time)
        THEN Size(ep.start_size)
        ELSE exp_size(ep.start_size, ep.end_size,
                      Rat(ep.start_time.n * t.d * ep.end_time.d
                            - t.n * ep.start_time.d * ep.end_time.d,
                          ep.start_time.n * t.d * ep.end_time.d
                            - ep.end_time.n * ep.start_time.d * t.d))

----------------------------------------------------------------------------
(* Styling, lines 70-96.                                                   *)

linestyles == <<"solid">>

linewidths == <<2, 4, 8, 1>>

\* Line 74: the top of the z order stacking.
z_top(g) ==
    1 + Len(g.demes)
      + (CHOOSE w \in {linewidths[i] : i \in 1..Len(linewidths)} :
            \A i \in 1..Len(linewidths) : linewidths[i] <= w)

Tab10Size == 10

Tab20Size == 20

\* choose_cmap falling back to tab20 however many demes there are.
choose_cmap_tab20(given, ndemes) ==
    IF given # "None" THEN given
    ELSE IF ndemes <= Tab10Size THEN "tab10"
    ELSE "tab20"

\* Lines 58-66: the colour map, or "error" when none can be chosen.
choose_cmap(given, ndemes) ==
    IF given # "None" THEN given
    ELSE IF ndemes <= Tab10Size THEN "tab10"
    ELSE IF ndemes <= Tab20Size THEN "tab20"
    ELSE "error"

colour(cm, jj) == [cmap |-> cm, index |-> jj]

plot_kwargs(g, cm, jj) ==
    LET linewidth == linewidths[(jj % Len(linewidths)) + 1]
    IN  [color |-> colour(cm, jj),
         linestyle |-> linestyles[(jj % Len(linestyles)) + 1],
         linewidth |-> linewidth,
         label |-> g.demes[jj + 1].id,
         zorder |-> z_top(g) - linewidth]

discontinuity_kwargs(g, cm, jj) ==
    LET linewidth == linewidths[(jj % Len(linewidths)) + 1]
    IN  [color |-> colour(cm, jj),
         linestyle |-> ":",
         linewidth |-> linewidth,
         zorder |-> z_top(g) - linewidth]

\* arrowhead_for with the two markers swapped.
arrowhead_for_swapped(invert_x) == IF invert_x THEN ">k" ELSE "<k"

\* Lines 53-56.
arrowhead_for(invert_x) == IF invert_x THEN "<k" ELSE ">k"

\* legend_ncol with one column per deme.
legend_ncol_per_deme(g) == Len(g.demes)

\* Line 192: the number of legend columns.
legend_ncol(g) == Len(g.demes) \div 2

Call(op, kind, jj, kk, x, y, style) ==
    [op |-> op, kind |-> kind, j |-> jj, k |-> kk, x |-> x, y |-> y,
     style |-> style]

----------------------------------------------------------------------------
(* size_history, one action per stretch of straight-line code.             *)

NoError == [type |-> "none", site |-> "none", msg |-> [text |-> "none"]]

NoResult == [value |-> Unassigned, logs |-> <<>>]

DrawOps == {"plot", "annotate"}

\* The draw calls (lines, markers, annotations) among the calls issued.
DrawCalls == SelectSeq(calls, LAMBDA c : c.op \in DrawOps)

\* Lines 49-74: marker, colour map, horizon.
Setup ==
    /\ pc = "start"
    /\ arrowhead' = arrowhead_for(opts.invert_x)
    /\ LET cm == choose_cmap(opts.cmap, Len(graph.demes))
       IN  IF cm = "error"
           THEN /\ error' = [type |-> "ValueError", site |-> "cmap",
                             msg |-> [text |-> "more than 20 demes"]]
                /\ pc' = "error"
                /\ UNCHANGED <<cmap, inf_start, result>>
           ELSE /\ cmap' = cm
                /\ result' = inf_start_time(graph, opts.inf_ratio, opts.log_x)
                /\ inf_start' = result'.value
                /\ pc' = "deme"
                /\ UNCHANGED error
    /\ UNCHANGED <<graph, opts, j, k, legend_handles, calls>>

\* Lines 76-97: the keyword arguments and the legend handle of deme j.
BeginDeme ==
    /\ pc = "deme"
    /\ legend_handles' = Append(legend_handles, plot_kwargs(graph, cmap, j))
    /\ k' = 0
    /\ pc' = "epoch"
    /\ UNCHANGED <<graph, opts, j, cmap, arrowhead, inf_start, calls, error,
                   result>>

\* Lines 100-105: the time span of an epoch on the axis.
x_start_time(epoch) ==
    IF isinf(epoch.start_time) THEN XHorizon ELSE XTime(epoch.start_time)

x_end_time(epoch, log_x) ==
    IF epoch.end_time = Rat(0, 1) /\ log_x
    THEN XTime(Rat(1, 1))
    ELSE XTime(epoch.end_time)

\* Lines 130-155: the annotation of epoch k.
epoch_annotation(g, cm, jj, kk, epoch, x0, x1, log_x, log_y) ==
    Call("annotate", "epoch", jj, kk, <<x0, x1>>,
         IF log_y
         THEN <<Size(1 + epoch.start_size), Size(1 + epoch.end_size)>>
         ELSE <<Size(epoch.start_size), Size(epoch.end_size)>>,
         [text |-> <<"epoch", kk>>,
          xmean |-> IF log_x THEN "geometric" ELSE "arithmetic",
          ymean |-> IF log_y THEN "geometric" ELSE "arithmetic",
          color |-> IF Len(g.demes) = 1 THEN colour("black", 0)
                    ELSE colour(cm, jj)])

\* Lines 99-155: one epoch of deme j.
PlotEpoch ==
    /\ pc = "epoch"
    /\ LET deme  == graph.demes[j + 1]
           epoch == deme.epochs[k + 1]
           x0    == x_start_time(epoch)
           x1    == x_end_time(epoch, opts.log_x)
           curve == epoch_curve(epoch, x0, x1, opts.num_exp_points)
       IN  IF ~curve.ok
           THEN /\ error' = [type |-> "ValueError", site |-> "size_function",
                             msg |-> unsupported_message(k, epoch)]
                /\ pc' = "error"
                /\ UNCHANGED <<k, calls>>
           ELSE /\ calls' =
                      calls
                      \o <<Call("plot", "curve", j, k, curve.x, curve.y,
                                plot_kwargs(graph, cmap, j))>>
                      \o (IF discontinuity(deme, k)
                          THEN <<Call("plot", "discontinuity", j, k,
                                      <<XTime(deme.epochs[k].end_time),
                                        XTime(epoch.start_time)>>,
                                      <<Size(deme.epochs[k].end_size),
                                        Size(epoch.start_size)>>,
                                      discontinuity_kwargs(graph, cmap, j))>>
                          ELSE <<>>)
                      \o (IF opts.annotate_epochs
                          THEN <<epoch_annotation(graph, cmap, j, k, epoch,
                                                  x0, x1, opts.log_x,
                                                  opts.log_y)>>
                          ELSE <<>>)
                /\ k' = k + 1
                /\ pc' = IF k + 1 < Len(deme.epochs) THEN "epoch"
                         ELSE "deme_end"
                /\ UNCHANGED error
    /\ UNCHANGED <<graph, opts, j, cmap, arrowhead, inf_start,
                   legend_handles, result>>

\* Lines 157-177: the arrow towards infinity and its label.
infinity_calls(g, cm, jj, marker, inf_label) ==
    LET deme == g.demes[jj + 1]
        at   == Size(deme.epochs[1].start_size)
    IN  IF isinf(start_time(deme))
        THEN <<Call("plot", "arrowhead", jj, 0, <<XHorizon>>, <<at>>,
                    [fmt |-> marker, color |-> colour(cm, jj),
                     zorder |-> z_top(g)])>>
             \o (IF inf_label
                 THEN <<Call("annotate", "inf", jj, 0, <<XHorizon>>, <<at>>,
                             [text |-> <<"inf">>])>>
                 ELSE <<>>)
        ELSE <<>>

\* Lines 179-189: the discontinuities from the ancestors of deme j.
ancestor_calls(g, cm, jj) ==
    LET deme == g.demes[jj + 1]
        all  == [i \in 1..Len(deme.ancestors) |->
                   Call("plot", "ancestor", jj, 0,
                        <<XTime(start_time(deme)), XTime(start_time(deme))>>,
                        <<size_of_deme_at_time(
                              graph_lookup(g, deme.ancestors[i]),
                              start_time(deme)),
                          Size(deme.epochs[1].start_size)>>,
                        discontinuity_kwargs(g, cm, jj))]
    IN  SelectSeq(all, LAMBDA c : c.y[1] # c.y[2])

\* Lines 157-189: what follows the epochs of deme j.
EndDeme ==
    /\ pc = "deme_end"
    /\ calls' = calls
                \o infinity_calls(graph, cmap, j, arrowhead, opts.inf_label)
                \o ancestor_calls(graph, cmap, j)
    /\ j' = j + 1
    /\ pc' = IF j + 1 < Len(graph.demes) THEN "deme" ELSE "finish"
    /\ UNCHANGED <<graph, opts, k, cmap, arrowhead, inf_start,
                   legend_handles, error, result>>

Plain(op, arg) == Call(op, "axes", 0, 0, <<>>, <<>>, arg)

\* Lines 191-222: legend, title, limits, spines, labels, scales.
Finish ==
    /\ pc = "finish"
    /\ calls' =
          calls
          \o (IF Len(graph.demes) > 1
              THEN <<Plain("legend", [handles |-> legend_handles,
                                      ncol |-> legend_ncol(graph),
                                      zorder |-> z_top(graph)])>>
              ELSE <<>>)
          \o (IF opts.title # "None"
              THEN <<Plain("set_title", [title |-> opts.title])>>
              ELSE <<>>)
          \o <<Plain("set_xlim",
                     [lower |-> IF opts.log_x THEN 1 ELSE 0,
                      upper |-> inf_start])>>
          \o <<Plain("spines", [hidden |-> "top"])>>
          \o (IF opts.invert_x
              THEN <<Plain("spines", [hidden |-> "left"]),
                     Plain("invert_xaxis", [on |-> TRUE]),
                     Plain("tick_right", [on |-> TRUE]),
                     Plain("set_label_position", [side |-> "right"])>>
              ELSE <<Plain("spines", [hidden |-> "right"])>>)
          \o <<Plain("set_xlabel", [units |-> graph.time_units]),
               Plain("set_ylabel", [text |-> "deme size"])>>
          \o (IF opts.log_x THEN <<Plain("set_xscale", [base |-> 10])>>
              ELSE <<>>)
          \o (IF opts.log_y THEN <<Plain("set_yscale", [base |-> 10])>>
              ELSE <<>>)
          \o <<Plain("tight_layout", [on |-> TRUE])>>
    /\ pc' = "done"
    /\ UNCHANGED <<graph, opts, j, k, cmap, arrowhead, inf_start,
                   legend_handles, error, result>>

Next == Setup \/ BeginDeme \/ PlotEpoch \/ EndDeme \/ Finish

----------------------------------------------------------------------------
(* The inputs.                                                             *)

FiniteTimes == {Rat(t, 1) : t \in 0..MaxTime}

\* Strictly decreasing times of n epochs: only the first may be infinite.
RECURSIVE TimeChains(_)
TimeChains(n) ==
    IF n = 0 THEN {<<t>> : t \in FiniteTimes \cup {Inf}}
    ELSE UNION {{Append(c, t) : t \in {u \in FiniteTimes : RatLess(u, c[n])}} :
                  c \in TimeChains(n - 1)}

Sizes == 1..MaxSize

\* start size, end size and size_function of an epoch. "logistic" stands for
\* every size_function that is neither "constant" nor "exponential".
EpochKinds ==
    {<<s, s, "constant">> : s \in Sizes}
    \cup {<<1, MaxSize, "exponential">>, <<1, 1, "logistic">>}

EpochsOf(chain, kinds) ==
    [i \in 1..Len(kinds) |->
        Epoch(chain[i], chain[i + 1], kinds[i][1], kinds[i][2], kinds[i][3])]

\* The epoch lists of a deme with n epochs, of every time span.
EpochLists(n) ==
    {EpochsOf(c, ks) : c \in TimeChains(n), ks \in [1..n -> EpochKinds]}

\* The times of n epochs that end at n-1, ..., 0, with a finite or an
\* infinite start.
SteppedChains(n) ==
    {<<first>> \o [i \in 1..n |-> Rat(n - i, 1)] : first \in {Inf, Rat(n, 1)}}

\* The epoch lists of a deme with n epochs, one time unit each.
SteppedEpochLists(n) ==
    {EpochsOf(c, ks) : c \in SteppedChains(n), ks \in [1..n -> EpochKinds]}

\* A root deme of constant size.
RootEpochs == <<Epoch(Inf, Rat(0, 1), 1, 1, "constant")>>

\* Ancestors a deme at position p (1-based) with these epochs may name: none,
\* or the root deme in front of it when it starts at a finite time.
AncestorChoices(p, epochs) ==
    IF p > 1 /\ ~isinf(epochs[1].start_time) THEN {<<>>, <<0>>} ELSE {<<>>}

\* n demes: root demes, except for the deme at position p.
GraphAround(n, p, epochs, ancestors) ==
    [demes |-> [i \in 1..n |->
                  IF i = p THEN Deme(i - 1, epochs, ancestors)
                  ELSE Deme(i - 1, RootEpochs, <<>>)],
     time_units |-> "generations"]

GraphsOf(counts, lists) ==
    UNION {UNION {UNION {{GraphAround(n, p, e, a) :
                            a \in AncestorChoices(p, e)} :
                         e \in lists} :
                  p \in 1..n} :
           n \in counts}

\* More demes than tab20 has colours, all of them roots.
WideGraph == GraphAround(Tab20Size + 1, 0, RootEpochs, <<>>)

AllEpochLists == UNION {SteppedEpochLists(n) : n \in 1..MaxEpochs}

Ratios == {Rat(1, 10), Rat(1, 2)}

\* The defaults of the signature, lines 12-20, with the sampling kept small.
DefaultOptions ==
    [inf_ratio |-> Rat(1, 10), inf_label |-> FALSE, invert_x |-> FALSE,
     num_exp_points |-> MaxPts, annotate_epochs |-> FALSE, cmap |-> "None",
     log_x |-> FALSE, log_y |-> FALSE, title |-> "None"]

\* The defaults, bare or with the epoch annotations, and with a log size
\* axis and a title on top of those.
DecorOptions ==
    {DefaultOptions,
     [DefaultOptions EXCEPT !.annotate_epochs = TRUE],
     [DefaultOptions EXCEPT !.annotate_epochs = TRUE, !.log_y = TRUE,
                            !.title = "a title"]}

\* The defaults with and without a colour map of the caller.
CmapOptions ==
    {[DefaultOptions EXCEPT !.cmap = c] : c \in {"None", "viridis"}}

\* Every combination of the arguments that shape the time axis, the arrows
\* and the sampling.
AxisOptions ==
    {[DefaultOptions EXCEPT !.inf_ratio = r, !.log_x = lx, !.invert_x = ix,
                            !.inf_label = il, !.num_exp_points = n] :
        r \in Ratios, lx \in BOOLEAN, ix \in BOOLEAN, il \in BOOLEAN,
        n \in 0..MaxPts}

InitWith(graphs, options) ==
    /\ graph \in graphs
    /\ opts \in options
    /\ pc = "start"
    /\ j = 0
    /\ k = 0
    /\ cmap = opts.cmap
    /\ arrowhead = "unset"
    /\ inf_start = Unassigned
    /\ legend_handles = <<>>
    /\ calls = <<>>
    /\ error = NoError
    /\ result = NoResult

\* Every graph shape, under the default arguments and their decorations.
Init ==
    \/ InitWith(GraphsOf(1..MaxDemes, AllEpochLists), DecorOptions)
    \/ InitWith({WideGraph}, CmapOptions)

Spec == Init /\ [][Next]_vars

\* One or two demes of one epoch each, under every axis argument.
InitOptions ==
    InitWith(GraphsOf(1..2, EpochLists(1)), AxisOptions \cup CmapOptions)

SpecOptions == InitOptions /\ [][Next]_vars

----------------------------------------------------------------------------
(* utils.inf_start_time on its own.                                        *)

\* First epochs whose times may also be a fraction below one.
FirstEpochs ==
    LET times  == FiniteTimes \cup {Rat(1, 2), Inf}
        chains == {c \in times \X times : RatLess(c[2], c[1])}
    IN  {<<Epoch(c[1], c[2], 1, 1, "constant")>> : c \in chains}

InfGraphs ==
    UNION {{[demes |-> [i \in 1..n |-> Deme(i - 1, es[i], <<>>)],
             time_units |-> "generations"] :
              es \in [1..n -> FirstEpochs]} : n \in 1..2}

InfRatios == Ratios \cup {Rat(1, 3), Rat(9, 10)}

InfOptions ==
    {[DefaultOptions EXCEPT !.inf_ratio = r, !.log_x = lx] :
        r \in InfRatios, lx \in BOOLEAN}

InitInf == InitWith(InfGraphs, InfOptions)

\* A call of utils.inf_start_time(graph, inf_ratio, log_scale).
InfStartTimeCall ==
    /\ pc = "start"
    /\ result' = inf_start_time(graph, opts.inf_ratio, opts.log_x)
    /\ pc' = "returned"
    /\ UNCHANGED <<graph, opts, j, k, cmap, arrowhead, inf_start,
                   legend_handles, calls, error>>

NextInf == InfStartTimeCall

SpecInf == InitInf /\ [][NextInf]_vars

----------------------------------------------------------------------------
(* What the claims speak of.                                               *)

NDemes == Len(graph.demes)

\* The 0-based positions (deme, epoch) of the graph.
Positions ==
    {<<jj, kk>> \in (0..(NDemes - 1)) \X (0..(MaxEpochs - 1)) :
        kk < Len(graph.demes[jj + 1].epochs)}

EpochAt(pos) == graph.demes[pos[1] + 1].epochs[pos[2] + 1]

Supported(pos) == EpochAt(pos).size_function \in {"constant", "exponential"}

\* pos comes before other in the order size_history visits the epochs.
Before(pos, other) ==
    pos[1] < other[1] \/ (pos[1] = other[1] /\ pos[2] < other[2])

CallsOf(kind, jj, kk) ==
    SelectSeq(calls, LAMBDA c : c.kind = kind /\ c.j = jj /\ c.k = kk)

CallsNamed(op) == SelectSeq(calls, LAMBDA c : c.op = op)

\* The largest of the first-epoch times inf_start_time looks at.
OldestTime == max(epoch0_times(graph.demes, NDemes))

\* The value of an end point of a curve on the time axis.
XValue(x) == IF x.h = Rat(0, 1) THEN FromRat(x.c) ELSE inf_start

AxisLower == FromRat(Rat(IF opts.log_x THEN 1 ELSE 0, 1))

----------------------------------------------------------------------------
(* C1: whenever the largest finite first-epoch time T is nonzero,          *)
(* inf_start_time returns a bound strictly greater than T, on a linear and *)
(* on a log axis alike.  The code breaks this on a log axis for T <= 1.    *)
C1_HorizonExceedsOldest ==
    (pc = "returned" /\ OldestTime # Rat(0, 1))
        => RealLess(FromRat(OldestTime), result.value)

----------------------------------------------------------------------------
(* C4: inf_start_time returns exactly 113 whenever the largest first-epoch *)
(* time is zero, whatever the ratio and the scale, and takes no logarithm  *)
(* then; otherwise a logarithm is only taken of a strictly positive time.  *)
C4_FallbackWithoutLog ==
    pc = "returned" =>
        /\ OldestTime = Rat(0, 1) =>
              /\ result.value = FromRat(Rat(FallbackHorizon, 1))
              /\ result.logs = <<>>
        /\ \A i \in 1..Len(result.logs) : RatLess(Rat(0, 1), result.logs[i])
        /\ (OldestTime # Rat(0, 1) /\ opts.log_x) => Len(result.logs) = 1

C4_Witness ==
    /\ pc = "returned"
    /\ OldestTime = Rat(0, 1)
    /\ opts.log_x
    /\ NDemes = 2
    /\ result.value = FromRat(Rat(FallbackHorizon, 1))

----------------------------------------------------------------------------
(* C3: with no colour map and more than 20 demes size_history raises the   *)
(* palette error before the horizon is computed, before any call is issued *)
(* on the axes and before any deme is visited.                             *)
C3_PaletteErrorFirst ==
    (opts.cmap = "None" /\ NDemes > Tab20Size /\ pc # "start") =>
        /\ pc = "error"
        /\ error.type = "ValueError"
        /\ error.site = "cmap"
        /\ inf_start = Unassigned
        /\ result = NoResult
        /\ calls = <<>>
        /\ legend_handles = <<>>
        /\ j = 0

C3_Witness ==
    /\ pc = "error"
    /\ error.site = "cmap"
    /\ opts.cmap = "None"
    /\ NDemes = Tab20Size + 1

----------------------------------------------------------------------------
(* C2, as claimed: on a graph with an epoch whose size_function is neither *)
(* "constant" nor "exponential", size_history raises the unsupported-mode  *)
(* error and no draw call has been issued when it is raised, wherever the  *)
(* epoch sits.                                                             *)
C2_NothingDrawnOnError ==
    ((\E pos \in Positions : ~Supported(pos)) /\ pc \in {"error", "done"}) =>
        /\ pc = "error"
        /\ error.site = "size_function"
        /\ Len(DrawCalls) = 0

(* C2, amended: when the colour map can be chosen, size_history raises the *)
(* unsupported-mode error at the first such epoch in the order of the      *)
(* demes and their epochs; no draw call has been issued for that epoch or  *)
(* any later one, the curve of every epoch before it has been drawn, and   *)
(* nothing at all is drawn when it is the first epoch of the first deme.   *)
C2_DrawnUpToOffendingEpoch ==
    ((\E pos \in Positions : ~Supported(pos))
       /\ choose_cmap(opts.cmap, NDemes) # "error"
       /\ pc \in {"error", "done"}) =>
        /\ pc = "error"
        /\ error.type = "ValueError"
        /\ error.site = "size_function"
        /\ ~Supported(<<j, k>>)
        /\ \A pos \in Positions : Before(pos, <<j, k>>) => Supported(pos)
        /\ \A i \in 1..Len(DrawCalls) :
              Before(<<DrawCalls[i].j, DrawCalls[i].k>>, <<j, k>>)
        /\ \A pos \in Positions :
              Len(CallsOf("curve", pos[1], pos[2]))
                 = IF Before(pos, <<j, k>>) THEN 1 ELSE 0
        /\ (j = 0 /\ k = 0) => Len(DrawCalls) = 0

C2_Witness ==
    /\ pc = "error"
    /\ error.site = "size_function"
    /\ j > 0
    /\ k > 0
    /\ Len(DrawCalls) > 2

----------------------------------------------------------------------------
(* C5: for every epoch k that has been plotted, a dotted connector between *)
(* epoch k-1 and epoch k has been drawn exactly once if k > 0 and the end  *)
(* size of epoch k-1 differs from the start size of epoch k, and not at    *)
(* all otherwise; a finished render has plotted every epoch.               *)
C5_ConnectorIffSizesDiffer ==
    \A pos \in Positions :
        LET jj == pos[1]
            kk == pos[2]
            plotted == Len(CallsOf("curve", jj, kk)) = 1
            differ  == /\ kk > 0
                       /\ EpochAt(<<jj, kk - 1>>).end_size
                            # EpochAt(pos).start_size
        IN  /\ pc = "done" => plotted
            /\ Len(CallsOf("discontinuity", jj, kk))
                  = IF plotted /\ differ THEN 1 ELSE 0

C5_Witness ==
    /\ pc = "done"
    /\ NDemes > 1
    /\ \E pos \in Positions :
          /\ pos[1] > 0
          /\ EpochAt(pos).size_function = "exponential"
          /\ Len(CallsOf("discontinuity", pos[1], pos[2])) = 1

----------------------------------------------------------------------------
(* C6: the curve of a plotted epoch has exactly 2 points when the epoch is *)
(* "constant" and exactly num_exp_points points when it is "exponential",  *)
(* as many x as y.                                                         *)
C6_CurveLengths ==
    \A i \in 1..Len(calls) :
        calls[i].kind = "curve" =>
            LET epoch == EpochAt(<<calls[i].j, calls[i].k>>)
            IN  /\ Len(calls[i].x) = Len(calls[i].y)
                /\ epoch.size_function = "constant" => Len(calls[i].x) = 2
                /\ epoch.size_function = "exponential"
                      => Len(calls[i].x) = opts.num_exp_points

C6_Witness ==
    /\ pc = "done"
    /\ opts.num_exp_points = MaxPts
    /\ \E i \in 1..Len(calls) :
          /\ calls[i].kind = "curve"
          /\ EpochAt(<<calls[i].j, calls[i].k>>).size_function = "exponential"
          /\ Len(calls[i].y) = MaxPts
    /\ \E i \in 1..Len(calls) :
          /\ calls[i].kind = "curve"
          /\ EpochAt(<<calls[i].j, calls[i].k>>).size_function = "constant"

----------------------------------------------------------------------------
(* C7, as claimed: a finished render holds one legend entry per deme, in   *)
(* the order of the demes; with more than one deme the legend has more     *)
(* than one column, and with one deme there is no legend.                  *)
C7_LegendMultiColumn ==
    pc = "done" =>
        /\ Len(legend_handles) = NDemes
        /\ \A i \in 1..NDemes : legend_handles[i].label = graph.demes[i].id
        /\ NDemes > 1 =>
              /\ Len(CallsNamed("legend")) = 1
              /\ CallsNamed("legend")[1].style.ncol > 1
        /\ NDemes = 1 => Len(CallsNamed("legend")) = 0

(* C7, amended: one legend entry per deme, in the order of the demes; with *)
(* more than one deme the legend has floor(n / 2) columns, which is more   *)
(* than one only from four demes on; with one deme there is no legend.     *)
C7_LegendColumns ==
    pc = "done" =>
        /\ Len(legend_handles) = NDemes
        /\ \A i \in 1..NDemes : legend_handles[i].label = graph.demes[i].id
        /\ NDemes > 1 =>
              /\ Len(CallsNamed("legend")) = 1
              /\ CallsNamed("legend")[1].style.handles = legend_handles
              /\ CallsNamed("legend")[1].style.ncol = NDemes \div 2
              /\ CallsNamed("legend")[1].style.ncol > 1 <=> NDemes >= 4
        /\ NDemes = 1 => Len(CallsNamed("legend")) = 0

C7_Witness ==
    /\ pc = "done"
    /\ NDemes = 4
    /\ Len(CallsNamed("legend")) = 1
    /\ CallsNamed("legend")[1].style.ncol = 2

----------------------------------------------------------------------------
(* C8, as claimed: the unsupported-mode error names the index of the       *)
(* offending epoch and the deme that holds it.                             *)
C8_ErrorNamesDeme ==
    error.site = "size_function" =>
        /\ "epoch" \in DOMAIN error.msg
        /\ "deme" \in DOMAIN error.msg

(* C8, amended: the unsupported-mode error names the index of the          *)
(* offending epoch and its size_function, and nothing of the deme.         *)
C8_ErrorNamesEpochOnly ==
    error.site = "size_function" =>
        /\ pc = "error"
        /\ DOMAIN error.msg = {"epoch", "size_function"}
        /\ error.msg.epoch = k
        /\ error.msg.size_function = EpochAt(<<j, k>>).size_function
        /\ ~Supported(<<j, k>>)

C8_Witness ==
    /\ pc = "error"
    /\ error.site = "size_function"
    /\ j = 2
    /\ error.msg.epoch = 1

----------------------------------------------------------------------------
(* C9: a finished render holds, for every deme, an arrowhead exactly when  *)
(* the start time of the deme is infinite, at the horizon and the start    *)
(* size of the first epoch, pointing left when invert_x and right          *)
(* otherwise; and an "inf" annotation at that point exactly when the       *)
(* arrowhead is drawn and inf_label is set.                                *)
C9_ArrowheadIffInfinite ==
    pc = "done" =>
        \A jj \in 0..(NDemes - 1) :
            LET deme   == graph.demes[jj + 1]
                arrows == CallsOf("arrowhead", jj, 0)
                labels == CallsOf("inf", jj, 0)
            IN  /\ Len(arrows) = IF isinf(deme.epochs[1].start_time)
                                 THEN 1 ELSE 0
                /\ \A i \in 1..Len(arrows) :
                      /\ arrows[i].op = "plot"
                      /\ arrows[i].x = <<XHorizon>>
                      /\ arrows[i].y = <<Size(deme.epochs[1].start_size)>>
                      /\ arrows[i].style.fmt
                            = IF opts.invert_x THEN "<k" ELSE ">k"
                /\ Len(labels) = IF Len(arrows) = 1 /\ opts.inf_label
                                 THEN 1 ELSE 0
                /\ \A i \in 1..Len(labels) :
                      /\ labels[i].op = "annotate"
                      /\ labels[i].x = <<XHorizon>>
                      /\ labels[i].y = <<Size(deme.epochs[1].start_size)>>

C9_Witness ==
    /\ pc = "done"
    /\ opts.invert_x
    /\ opts.inf_label
    /\ \E jj \in 0..(NDemes - 1) : Len(CallsOf("arrowhead", jj, 0)) = 1
    /\ \E jj \in 0..(NDemes - 1) : Len(CallsOf("arrowhead", jj, 0)) = 0
    /\ Len(CallsNamed("annotate")) = 1

----------------------------------------------------------------------------
(* C10: the limits of the time axis satisfy lower < upper, and the curve   *)
(* of every epoch starts at an x that is not smaller than the x it ends    *)
(* at, both within the limits.  The code breaks this on a log axis when    *)
(* the largest finite first-epoch time is 1 (see C1).                      *)
C10_AxisLimitsOrdered ==
    /\ \A i \in 1..Len(calls) :
          calls[i].op = "set_xlim" =>
              /\ calls[i].style.lower = (IF opts.log_x THEN 1 ELSE 0)
              /\ calls[i].style.upper = inf_start
              /\ RealLess(AxisLower, inf_start)
    /\ \A i \in 1..Len(calls) :
          (calls[i].kind = "curve" /\ Len(calls[i].x) >= 2) =>
              LET first == XValue(calls[i].x[1])
                  last  == XValue(calls[i].x[Len(calls[i].x)])
              IN  /\ RealLeq(last, first)
                  /\ RealLeq(AxisLower, last)
                  /\ RealLeq(first, inf_start)

====
